---- MODULE Spec2Model ----
(***************************************************************************)
(* Vehicle service center (Bootcampmp2.cpp): the ServiceCenter registry    *)
(* with its conflict-checked addAppointment and its viewAppointments       *)
(* listing, the ServiceAppointment lifecycle (Scheduled -> In Progress ->  *)
(* Completed) and the Client notification.                                 *)
(*                                                                         *)
(* The classes are driven by callers that may make any public call in any  *)
(* order.  A caller can reach a ServiceAppointment only by constructing    *)
(* one itself: ServiceCenter keeps `appointments` private and neither      *)
(* addAppointment nor viewAppointments hands an appointment out.  The      *)
(* appointments a caller constructed are kept in `standalone`.  Callers    *)
(* pass pointers to live Client and Service objects, as main does.         *)
(*                                                                         *)
(* Strings that the code builds by concatenation are sequences of their    *)
(* pieces and concatenation is \o.                                         *)
(***************************************************************************)
EXTENDS Integers, Sequences, FiniteSets, TLC

\* ------------------------------------------------------------------------
\* Bounds of the model
\* ------------------------------------------------------------------------

\* addAppointment is called only while the registry holds fewer appointments
MaxAppointments == 2

\* ServiceAppointment objects the callers construct themselves
MaxStandalone == 1

\* progressState calls made on one caller-constructed appointment
MaxProgressCalls == 4

\* ------------------------------------------------------------------------
\* Input values
\* ------------------------------------------------------------------------

Clients ==
    { [name |-> "Alice", contact |-> "100"],
      [name |-> "Bob",   contact |-> "200"] }

VehicleNumbers == {"KA01", "KA02"}

Dates == {"01-01-2025", "02-01-2025"}

RepairTypes == {"gasket"}

\* class OilChange: Service("Oil Change", 50.0), parts list
OilChange ==
    [ class         |-> "OilChange",
      serviceType   |-> "Oil Change",
      baseCost      |-> 50,
      partsRequired |-> <<"Oil Filter", "Engine Oil">>,
      repairType    |-> "" ]

\* class EngineRepair: Service("Engine Repair", 200.0), repairType(type)
EngineRepair(type) ==
    [ class         |-> "EngineRepair",
      serviceType   |-> "Engine Repair",
      baseCost      |-> 200,
      partsRequired |-> <<"Engine Parts", "Lubricants">>,
      repairType    |-> type ]

Services == {OilChange} \cup { EngineRepair(x) : x \in RepairTypes }

\* The arguments callers give the ServiceAppointment constructor directly
StandaloneVehicles == {"KA01"}
StandaloneDates    == {"01-01-2025"}
StandaloneClients  == { c \in Clients : c.name = "Alice" }
StandaloneServices == {OilChange}

\* ------------------------------------------------------------------------
\* State
\* ------------------------------------------------------------------------

VARIABLES
    appointments,      \* ServiceCenter::appointments, in vector order
    appointmentMutex,  \* the thread holding ServiceCenter::appointmentMutex, or Unlocked
    standalone,        \* the ServiceAppointment objects constructed by callers
    progressCalls,     \* progressCalls[k]: progressState calls made on standalone[k]
    notifications,     \* the Client::update calls so far: receiver, message, line on cout
    listing,           \* what the latest viewAppointments call wrote on cout
    pc,                \* pc[t]: where thread t is
    frame,             \* frame[t]: the ServiceCenter call thread t is in, with its arguments
    result,            \* result[t]: how the latest call of thread t ended
    scheduled          \* the requests of the addAppointment calls that returned, in order

\* main: the driving loop and what it reads and writes
VARIABLES
    mainpc,            \* where main is; "off" when main is not what drives the classes
    option,            \* int option
    cin,               \* std::cin: good or failed, and whether the latest >> extracted
    locals,            \* the variables of the option-1 block
    console,           \* the latest report main wrote on cout or cerr (prompts left out)
    exitStatus,        \* the value main returned, once it has
    atLoopTop          \* the registry and notifications at the top of the loop iteration

mainVars == << mainpc, option, cin, locals, console, exitStatus, atLoopTop >>

\* callers on several threads, and callers of the Service classes
VARIABLES
    calls,             \* calls[t]: the ServiceCenter calls thread t has made, with how each stands
    services,          \* the Service objects constructed by callers
    costs              \* costs[k]: what the calculateCost calls on services[k] returned

callerVars == << calls, services, costs >>

vars == << appointments, appointmentMutex, standalone, progressCalls,
           notifications, listing, pc, frame, result, scheduled, mainVars,
           callerVars >>

Threads == DOMAIN pc

\* no caller keeps a record of its calls or constructs services
CallersOff ==
    /\ calls = << >>
    /\ services = << >>
    /\ costs = << >>

\* what a read finds when the input is exhausted
EndOfInput == "end of input"

\* `int option;` before anything was stored in it
Indeterminate == [written |-> FALSE, value |-> 0]

\* `option` once operator>> has stored v in it
Stored(v) == [written |-> TRUE, value |-> v]

\* a shared_ptr holding nothing
NullPtr == "nullptr"

\* exitStatus while main has not returned
Running == << >>

\* the option-1 block's variables as declared: empty strings, empty pointers
NoLocals ==
    [ clientName |-> "", contact |-> "", vehicleNum |-> "", date |-> "",
      serviceType |-> "", repairType |-> "", client |-> NullPtr, service |-> NullPtr,
      reads |-> 0 ]

NoConsole == << >>

\* main is not running
MainOff ==
    /\ mainpc = "off"
    /\ option = Indeterminate
    /\ cin = [state |-> "good", extracted |-> FALSE]
    /\ locals = NoLocals
    /\ console = NoConsole
    /\ exitStatus = Running
    /\ atLoopTop = [appointments |-> << >>, notifications |-> << >>]

Unlocked == "unlocked"

NoFrame == [op |-> "none"]

\* How a call ended
Pending  == [status |-> "pending"]
Returned == [status |-> "returned"]
ConflictMessage == "Scheduling conflict: Vehicle already has an appointment on this date"
Threw(type, what) == [status |-> "threw", exception |-> type, what |-> what]

\* ------------------------------------------------------------------------
\* ServiceState and its three subclasses
\* ------------------------------------------------------------------------

States == {"ScheduledState", "InProgressState", "CompletedState"}

\* ScheduledState::getStatus, InProgressState::getStatus, CompletedState::getStatus
StateStatus(s) ==
    CASE s = "ScheduledState"  -> "Scheduled"
      [] s = "InProgressState" -> "In Progress"
      [] s = "CompletedState"  -> "Completed"

\* ServiceAppointment::setState
setState(apt, newState) == [apt EXCEPT !.currentState = newState]

\* nextState with ScheduledState going straight to CompletedState
nextState_Skip(apt) ==
    CASE apt.currentState = "ScheduledState"  -> setState(apt, "CompletedState")
      [] apt.currentState = "InProgressState" -> setState(apt, "CompletedState")
      [] apt.currentState = "CompletedState"  -> apt

\* ScheduledState::nextState, InProgressState::nextState, CompletedState::nextState
nextState(apt) ==
    CASE apt.currentState = "ScheduledState"  -> setState(apt, "InProgressState")
      [] apt.currentState = "InProgressState" -> setState(apt, "CompletedState")
      [] apt.currentState = "CompletedState"  -> apt

\* ------------------------------------------------------------------------
\* ServiceAppointment
\* ------------------------------------------------------------------------

\* the constructor with vehicleNum and date initialising each other's member
NewAppointment_Swapped(client, vehicleNum, service, date) ==
    [ client        |-> client,
      vehicleNumber |-> date,
      service       |-> service,
      scheduledDate |-> vehicleNum,
      currentState  |-> "ScheduledState" ]

\* ServiceAppointment::ServiceAppointment
NewAppointment(client, vehicleNum, service, date) ==
    [ client        |-> client,
      vehicleNumber |-> vehicleNum,
      service       |-> service,
      scheduledDate |-> date,
      currentState  |-> "ScheduledState" ]

\* progressState with CompletedState wrapping around to ScheduledState
progressState_Cycle(apt) ==
    IF apt.currentState = "CompletedState"
    THEN setState(apt, "ScheduledState")
    ELSE nextState(apt)

\* ServiceAppointment::progressState
progressState(apt) == nextState(apt)

\* ServiceAppointment::getStatus
getStatus(apt) == StateStatus(apt.currentState)

\* ------------------------------------------------------------------------
\* Service and Client
\* ------------------------------------------------------------------------

\* EngineRepair::calculateCost without the factor
calculateCost_NoFactor(service) == service.baseCost

\* OilChange::calculateCost, EngineRepair::calculateCost.  baseCost * 1.5 is
\* exact in double for the base costs of the two classes; 1.5 is 15 / 10.
calculateCost(service) ==
    IF service.class = "OilChange"
    THEN service.baseCost
    ELSE (service.baseCost * 15) \div 10

\* OilChange::getDescription, EngineRepair::getDescription
getDescription(service) ==
    IF service.class = "OilChange"
    THEN <<"Standard Oil Change Service">>
    ELSE <<"Engine Repair: ">> \o <<service.repairType>>

\* Client::update: the line written on cout, recorded with its receiver
update(client, message) ==
    [ client  |-> client,
      message |-> message,
      line    |-> <<"Notification for ", client.name, ": ">> \o message ]

\* ------------------------------------------------------------------------
\* ServiceCenter
\* ------------------------------------------------------------------------

\* the scan condition comparing each getter with the other argument
Conflicts_Crossed(apt, vehicleNum, date) ==
    /\ apt.scheduledDate = vehicleNum
    /\ apt.vehicleNumber = date

\* the condition of the conflict scan, for one stored appointment
Conflicts(apt, vehicleNum, date) ==
    /\ apt.scheduledDate = date
    /\ apt.vehicleNumber = vehicleNum

\* the scan comparing the date alone
HasConflict_DateOnly(apts, vehicleNum, date) ==
    \E i \in 1..Len(apts) : apts[i].scheduledDate = date

\* the conflict scan over the whole vector: does it throw
HasConflict(apts, vehicleNum, date) ==
    \E i \in 1..Len(apts) : Conflicts(apts[i], vehicleNum, date)

\* the message without the date
ScheduledMessage_NoDate(date) == <<"Appointment scheduled for ">>

\* the message addAppointment notifies the client with
ScheduledMessage(date) == <<"Appointment scheduled for ">> \o <<date>>

\* what viewAppointments writes for one appointment
Summary(apt) ==
    << <<"\nVehicle: ", apt.vehicleNumber>>,
       <<"\nClient: ",  apt.client.name>>,
       <<"\nService: ", getDescription(apt.service)>>,
       <<"\nDate: ",    apt.scheduledDate>>,
       <<"\nStatus: ",  getStatus(apt)>> >>

\* the loop running from the back of the vector
ViewOutput_Reversed(apts) == [ i \in 1..Len(apts) |-> Summary(apts[Len(apts) + 1 - i]) ]

\* the loop of viewAppointments over the whole vector
ViewOutput(apts) == [ i \in 1..Len(apts) |-> Summary(apts[i]) ]

\* the registry and the notifications as a call finds them; kept in its frame
Snapshot == [appointments |-> appointments, notifications |-> notifications]

\* addAppointment entered without waiting for the mutex
addAppointment_lock_NoMutex(t, client, vehicleNum, service, date) ==
    /\ pc[t] = "ready"
    /\ Len(appointments) < MaxAppointments
    /\ appointmentMutex' = t
    /\ frame' = [frame EXCEPT ![t] =
                    [ op |-> "addAppointment", client |-> client,
                      vehicleNum |-> vehicleNum, service |-> service, date |-> date,
                      entry |-> Snapshot ]]
    /\ result' = [result EXCEPT ![t] = Pending]
    /\ pc' = [pc EXCEPT ![t] = "add_scan"]
    /\ UNCHANGED << appointments, standalone, progressCalls, notifications,
                    listing, scheduled >>

\* addAppointment is entered: lock_guard takes appointmentMutex
addAppointment_lock(t, client, vehicleNum, service, date) ==
    /\ pc[t] = "ready"
    /\ Len(appointments) < MaxAppointments
    /\ appointmentMutex = Unlocked
    /\ appointmentMutex' = t
    /\ frame' = [frame EXCEPT ![t] =
                    [ op |-> "addAppointment", client |-> client,
                      vehicleNum |-> vehicleNum, service |-> service, date |-> date,
                      entry |-> Snapshot ]]
    /\ result' = [result EXCEPT ![t] = Pending]
    /\ pc' = [pc EXCEPT ![t] = "add_scan"]
    /\ UNCHANGED << appointments, standalone, progressCalls, notifications,
                    listing, scheduled >>

\* the conflict scan: throws runtime_error, or falls through to the push_back
addAppointment_scan(t) ==
    /\ pc[t] = "add_scan"
    /\ IF HasConflict(appointments, frame[t].vehicleNum, frame[t].date)
       THEN /\ result' = [result EXCEPT ![t] = Threw("runtime_error", ConflictMessage)]
            /\ pc' = [pc EXCEPT ![t] = "add_throw"]
       ELSE /\ pc' = [pc EXCEPT ![t] = "add_push"]
            /\ UNCHANGED result
    /\ UNCHANGED << appointments, appointmentMutex, standalone, progressCalls,
                    notifications, listing, frame, scheduled >>

\* the push_back ending the lock's scope, the notification left outside it
addAppointment_push_Unlocking(t) ==
    /\ pc[t] = "add_push"
    /\ appointments' = Append(appointments,
                          NewAppointment(frame[t].client, frame[t].vehicleNum,
                                         frame[t].service, frame[t].date))
    /\ appointmentMutex' = Unlocked
    /\ pc' = [pc EXCEPT ![t] = "add_notify"]
    /\ UNCHANGED << standalone, progressCalls, notifications,
                    listing, frame, result, scheduled >>

\* make_shared<ServiceAppointment>(...) and appointments.push_back
addAppointment_push(t) ==
    /\ pc[t] = "add_push"
    /\ appointments' = Append(appointments,
                          NewAppointment(frame[t].client, frame[t].vehicleNum,
                                         frame[t].service, frame[t].date))
    /\ pc' = [pc EXCEPT ![t] = "add_notify"]
    /\ UNCHANGED << appointmentMutex, standalone, progressCalls, notifications,
                    listing, frame, result, scheduled >>

\* client->update("Appointment scheduled for " + date)
addAppointment_notify(t) ==
    /\ pc[t] = "add_notify"
    /\ notifications' = Append(notifications,
                           update(frame[t].client, ScheduledMessage(frame[t].date)))
    /\ result' = [result EXCEPT ![t] = Returned]
    /\ pc' = [pc EXCEPT ![t] = "add_return"]
    /\ UNCHANGED << appointments, appointmentMutex, standalone, progressCalls,
                    listing, frame, scheduled >>

\* addAppointment returns: the lock_guard unlocks, the frame is gone
addAppointment_return(t) ==
    /\ pc[t] = "add_return"
    /\ appointmentMutex' = Unlocked
    /\ scheduled' = Append(scheduled,
                       [ client |-> frame[t].client, vehicleNum |-> frame[t].vehicleNum,
                         service |-> frame[t].service, date |-> frame[t].date ])
    /\ frame' = [frame EXCEPT ![t] = NoFrame]
    /\ pc' = [pc EXCEPT ![t] = "ready"]
    /\ UNCHANGED << appointments, standalone, progressCalls, notifications,
                    listing, result >>

\* the runtime_error leaves addAppointment: the lock_guard unlocks, the frame is gone
addAppointment_throw(t) ==
    /\ pc[t] = "add_throw"
    /\ appointmentMutex' = Unlocked
    /\ frame' = [frame EXCEPT ![t] = NoFrame]
    /\ pc' = [pc EXCEPT ![t] = "ready"]
    /\ UNCHANGED << appointments, standalone, progressCalls, notifications,
                    listing, result, scheduled >>

\* viewAppointments is entered: lock_guard takes appointmentMutex
viewAppointments_lock(t) ==
    /\ pc[t] = "ready"
    /\ appointmentMutex = Unlocked
    /\ appointmentMutex' = t
    /\ frame' = [frame EXCEPT ![t] = [op |-> "viewAppointments", entry |-> Snapshot]]
    /\ result' = [result EXCEPT ![t] = Pending]
    /\ listing' = << >>
    /\ pc' = [pc EXCEPT ![t] = "view_loop"]
    /\ UNCHANGED << appointments, standalone, progressCalls, notifications, scheduled >>

\* the loop calling progressState on each appointment it lists
viewAppointments_loop_Advancing(t) ==
    /\ pc[t] = "view_loop"
    /\ listing' = ViewOutput(appointments)
    /\ appointments' = [ i \in 1..Len(appointments) |-> progressState(appointments[i]) ]
    /\ result' = [result EXCEPT ![t] = Returned]
    /\ pc' = [pc EXCEPT ![t] = "view_return"]
    /\ UNCHANGED << appointmentMutex, standalone, progressCalls,
                    notifications, frame, scheduled >>

\* the loop of viewAppointments
viewAppointments_loop(t) ==
    /\ pc[t] = "view_loop"
    /\ listing' = ViewOutput(appointments)
    /\ result' = [result EXCEPT ![t] = Returned]
    /\ pc' = [pc EXCEPT ![t] = "view_return"]
    /\ UNCHANGED << appointments, appointmentMutex, standalone, progressCalls,
                    notifications, frame, scheduled >>

\* viewAppointments returns: the lock_guard unlocks, the frame is gone
viewAppointments_return(t) ==
    /\ pc[t] = "view_return"
    /\ appointmentMutex' = Unlocked
    /\ frame' = [frame EXCEPT ![t] = NoFrame]
    /\ pc' = [pc EXCEPT ![t] = "ready"]
    /\ UNCHANGED << appointments, standalone, progressCalls, notifications,
                    listing, result, scheduled >>

\* ------------------------------------------------------------------------
\* Calls on appointments the caller constructed
\* ------------------------------------------------------------------------

\* a caller constructs a ServiceAppointment
construct(t, client, vehicleNum, service, date) ==
    /\ pc[t] = "ready"
    /\ Len(standalone) < MaxStandalone
    /\ standalone' = Append(standalone, NewAppointment(client, vehicleNum, service, date))
    /\ progressCalls' = Append(progressCalls, 0)
    /\ result' = [result EXCEPT ![t] = Returned]
    /\ UNCHANGED << appointments, appointmentMutex, notifications, listing, pc,
                    frame, scheduled >>

\* progressState acting on one state object that all appointments share
progress_SharedState(t, k) ==
    /\ pc[t] = "ready"
    /\ k \in 1..Len(standalone)
    /\ progressCalls[k] < MaxProgressCalls
    /\ standalone' = [ j \in 1..Len(standalone) |-> progressState(standalone[j]) ]
    /\ appointments' = [ i \in 1..Len(appointments) |-> progressState(appointments[i]) ]
    /\ progressCalls' = [progressCalls EXCEPT ![k] = @ + 1]
    /\ result' = [result EXCEPT ![t] = Returned]
    /\ UNCHANGED << appointmentMutex, notifications, listing, pc, frame, scheduled >>

\* a caller calls progressState on the k-th appointment it constructed
progress(t, k) ==
    /\ pc[t] = "ready"
    /\ k \in 1..Len(standalone)
    /\ progressCalls[k] < MaxProgressCalls
    /\ standalone' = [standalone EXCEPT ![k] = progressState(standalone[k])]
    /\ progressCalls' = [progressCalls EXCEPT ![k] = @ + 1]
    /\ result' = [result EXCEPT ![t] = Returned]
    /\ UNCHANGED << appointments, appointmentMutex, notifications, listing, pc,
                    frame, scheduled >>

\* ------------------------------------------------------------------------
\* Specification: one thread making any calls in any order
\* ------------------------------------------------------------------------

Init ==
    /\ appointments = << >>
    /\ appointmentMutex = Unlocked
    /\ standalone = << >>
    /\ progressCalls = << >>
    /\ notifications = << >>
    /\ listing = << >>
    /\ pc = [t \in {"main"} |-> "ready"]
    /\ frame = [t \in {"main"} |-> NoFrame]
    /\ result = [t \in {"main"} |-> Pending]
    /\ scheduled = << >>
    /\ MainOff
    /\ CallersOff

Next ==
  /\ UNCHANGED << mainVars, callerVars >>
  /\ \E t \in Threads :
        \/ \E c \in Clients, v \in VehicleNumbers, s \in Services, d \in Dates :
               addAppointment_lock(t, c, v, s, d)
        \/ addAppointment_scan(t)
        \/ addAppointment_push(t)
        \/ addAppointment_notify(t)
        \/ addAppointment_return(t)
        \/ addAppointment_throw(t)
        \/ viewAppointments_lock(t)
        \/ viewAppointments_loop(t)
        \/ viewAppointments_return(t)
        \/ \E c \in StandaloneClients, v \in StandaloneVehicles,
              s \in StandaloneServices, d \in StandaloneDates :
               construct(t, c, v, s, d)
        \/ \E k \in 1..MaxStandalone + 1 : progress(t, k)

Spec == Init /\ [][Next]_vars

\* ------------------------------------------------------------------------
\* main
\* ------------------------------------------------------------------------

\* The lines the input may hold where main reads each value
MenuLines        == {"1", "2", "3", "7", "x"}
MainNames        == {"Alice", "Bob"}
MainContacts     == {"100"}
MainVehicles     == {"KA01", "KA02"}
MainDates        == {"01-01-2025"}
MainServiceTypes == {"oil", "engine", "bike"}
MainRepairTypes  == {"gasket"}

\* the digits operator>> can extract from a line of the menu's input
IsNumber(line) == line \in {"1", "2", "3", "7"}

\* the int that operator>> makes of them
ParseInt(line) ==
    CASE line = "1" -> 1
      [] line = "2" -> 2
      [] line = "3" -> 3
      [] line = "7" -> 7

\* what the input can offer a read: a line of `values` while cin is good, else nothing
Offered(values) == IF cin.state = "good" THEN values \cup {EndOfInput} ELSE {EndOfInput}

\* the values `option` may show when read: any at all while it is indeterminate
OptionValues == IF option.written THEN {option.value} ELSE {0, 1, 2, 3, 7}

\* getline(cin, field): the line, or the string left empty and cin failed
GetLine(field, line) ==
    /\ locals' = [locals EXCEPT ![field] = IF line = EndOfInput THEN "" ELSE line,
                                !.reads = @ + 1]
    /\ cin' = IF line = EndOfInput THEN [cin EXCEPT !.state = "fail"] ELSE cin

\* everything of the classes that main's own steps leave alone
NoCall ==
    UNCHANGED << appointments, appointmentMutex, standalone, progressCalls,
                 notifications, listing, pc, frame, result, scheduled >>

\* the top of the loop: the menu, cin >> option, cin.ignore()
main_menu ==
    /\ mainpc = "menu"
    /\ \E in \in Offered(MenuLines) :
          CASE in = EndOfInput ->
                   \* the sentry fails: option is not written
                   /\ cin' = [state |-> "fail", extracted |-> FALSE]
                   /\ UNCHANGED option
            [] in # EndOfInput /\ ~ IsNumber(in) ->
                   \* num_get fails: option is set to 0
                   /\ cin' = [state |-> "fail", extracted |-> FALSE]
                   /\ option' = Stored(0)
            [] in # EndOfInput /\ IsNumber(in) ->
                   /\ cin' = [state |-> "good", extracted |-> TRUE]
                   /\ option' = Stored(ParseInt(in))
    /\ atLoopTop' = Snapshot
    /\ locals' = NoLocals
    /\ mainpc' = "dispatch"
    /\ UNCHANGED << console, exitStatus >>
    /\ NoCall

\* option == 1: the block is entered
main_option1 ==
    /\ mainpc = "dispatch"
    /\ 1 \in OptionValues
    /\ mainpc' = "read_clientName"
    /\ UNCHANGED << option, cin, locals, console, exitStatus, atLoopTop >>
    /\ NoCall

\* one of the five getline calls of the block
main_getline(at, field, values, next) ==
    /\ mainpc = at
    /\ \E line \in Offered(values) : GetLine(field, line)
    /\ mainpc' = next
    /\ UNCHANGED << option, console, exitStatus, atLoopTop >>
    /\ NoCall

\* the if chain with unknown types taken for "oil"
main_makeService_DefaultOil ==
    /\ mainpc = "make_service"
    /\ LET client == [name |-> locals.clientName, contact |-> locals.contact]
       IN  IF locals.serviceType = "engine"
           THEN /\ locals' = [locals EXCEPT !.client = client]
                /\ mainpc' = "read_repairType"
           ELSE /\ locals' = [locals EXCEPT !.client = client, !.service = OilChange]
                /\ mainpc' = "call_add"
    /\ UNCHANGED result
    /\ UNCHANGED << option, cin, console, exitStatus, atLoopTop >>
    /\ UNCHANGED << appointments, appointmentMutex, standalone, progressCalls,
                    notifications, listing, pc, frame, scheduled >>

\* the if chain building the EngineRepair before the repair type is read
main_makeService_EarlyEngine ==
    /\ mainpc = "make_service"
    /\ LET client == [name |-> locals.clientName, contact |-> locals.contact]
       IN  CASE locals.serviceType = "oil" ->
                    /\ locals' = [locals EXCEPT !.client = client, !.service = OilChange]
                    /\ mainpc' = "call_add"
                    /\ UNCHANGED result
             [] locals.serviceType = "engine" ->
                    /\ locals' = [locals EXCEPT !.client = client,
                                                !.service = EngineRepair(locals.repairType)]
                    /\ mainpc' = "call_add"
                    /\ UNCHANGED result
             [] OTHER ->
                    /\ locals' = [locals EXCEPT !.client = client]
                    /\ result' = [result EXCEPT !["main"] =
                                     Threw("invalid_argument", "Invalid service type")]
                    /\ mainpc' = "catch"
    /\ UNCHANGED << option, cin, console, exitStatus, atLoopTop >>
    /\ UNCHANGED << appointments, appointmentMutex, standalone, progressCalls,
                    notifications, listing, pc, frame, scheduled >>

\* make_shared<Client>, then the if chain on serviceType; its else throws
main_makeService ==
    /\ mainpc = "make_service"
    /\ LET client == [name |-> locals.clientName, contact |-> locals.contact]
       IN  CASE locals.serviceType = "oil" ->
                    /\ locals' = [locals EXCEPT !.client = client, !.service = OilChange]
                    /\ mainpc' = "call_add"
                    /\ UNCHANGED result
             [] locals.serviceType = "engine" ->
                    /\ locals' = [locals EXCEPT !.client = client]
                    /\ mainpc' = "read_repairType"
                    /\ UNCHANGED result
             [] OTHER ->
                    /\ locals' = [locals EXCEPT !.client = client]
                    /\ result' = [result EXCEPT !["main"] =
                                     Threw("invalid_argument", "Invalid service type")]
                    /\ mainpc' = "catch"
    /\ UNCHANGED << option, cin, console, exitStatus, atLoopTop >>
    /\ UNCHANGED << appointments, appointmentMutex, standalone, progressCalls,
                    notifications, listing, pc, frame, scheduled >>

\* getline(cin, repairType) and make_shared<EngineRepair>(repairType)
main_readRepairType ==
    /\ mainpc = "read_repairType"
    /\ \E line \in Offered(MainRepairTypes) :
          LET repairType == IF line = EndOfInput THEN "" ELSE line
          IN  /\ locals' = [locals EXCEPT !.repairType = repairType,
                                          !.service = EngineRepair(repairType),
                                          !.reads = @ + 1]
              /\ cin' = IF line = EndOfInput THEN [cin EXCEPT !.state = "fail"] ELSE cin
    /\ mainpc' = "call_add"
    /\ UNCHANGED << option, console, exitStatus, atLoopTop >>
    /\ NoCall

\* serviceCenter.addAppointment(client, vehicleNum, service, date) is entered
main_callAdd ==
    /\ mainpc = "call_add"
    /\ addAppointment_lock("main", locals.client, locals.vehicleNum,
                           locals.service, locals.date)
    /\ mainpc' = "in_add"
    /\ UNCHANGED << option, cin, locals, console, exitStatus, atLoopTop >>

\* addAppointment returned: "Appointment scheduled successfully!"
main_added ==
    /\ mainpc = "in_add"
    /\ pc["main"] = "ready"
    /\ result["main"] = Returned
    /\ console' = <<"Appointment scheduled successfully!\n">>
    /\ mainpc' = "menu"
    /\ UNCHANGED << option, cin, locals, exitStatus, atLoopTop >>
    /\ NoCall

\* addAppointment threw: the exception reaches the catch clause
main_addThrew ==
    /\ mainpc = "in_add"
    /\ pc["main"] = "ready"
    /\ result["main"].status = "threw"
    /\ mainpc' = "catch"
    /\ UNCHANGED << option, cin, locals, console, exitStatus, atLoopTop >>
    /\ NoCall

\* the catch clause ending the process instead of reporting
main_catch_Fatal ==
    /\ mainpc = "catch"
    /\ console' = <<"Error: ", result["main"].what>>
    /\ exitStatus' = <<1>>
    /\ mainpc' = "exited"
    /\ UNCHANGED << option, cin, locals, atLoopTop >>
    /\ NoCall

\* catch (const exception& e): cerr << "Error: " << e.what(), and the loop goes on
main_catch ==
    /\ mainpc = "catch"
    /\ console' = <<"Error: ", result["main"].what>>
    /\ mainpc' = "menu"
    /\ UNCHANGED << option, cin, locals, exitStatus, atLoopTop >>
    /\ NoCall

\* option == 2: serviceCenter.viewAppointments() is entered
main_option2 ==
    /\ mainpc = "dispatch"
    /\ 2 \in OptionValues
    /\ viewAppointments_lock("main")
    /\ mainpc' = "in_view"
    /\ UNCHANGED << option, cin, locals, console, exitStatus, atLoopTop >>

\* viewAppointments returned
main_viewed ==
    /\ mainpc = "in_view"
    /\ pc["main"] = "ready"
    /\ mainpc' = "menu"
    /\ UNCHANGED << option, cin, locals, console, exitStatus, atLoopTop >>
    /\ NoCall

\* option 3 without the break
main_option3_NoBreak ==
    /\ mainpc = "dispatch"
    /\ 3 \in OptionValues
    /\ console' = <<"Exiting system...\n">>
    /\ mainpc' = "menu"
    /\ UNCHANGED << option, cin, locals, exitStatus, atLoopTop >>
    /\ NoCall

\* option == 3: "Exiting system...", break, return 0
main_option3 ==
    /\ mainpc = "dispatch"
    /\ 3 \in OptionValues
    /\ console' = <<"Exiting system...\n">>
    /\ exitStatus' = <<0>>
    /\ mainpc' = "exited"
    /\ UNCHANGED << option, cin, locals, atLoopTop >>
    /\ NoCall

\* any other option: "Invalid option!"
main_invalidOption ==
    /\ mainpc = "dispatch"
    /\ \E v \in OptionValues : v \notin {1, 2, 3}
    /\ console' = <<"Invalid option!\n">>
    /\ mainpc' = "menu"
    /\ UNCHANGED << option, cin, locals, exitStatus, atLoopTop >>
    /\ NoCall

\* ------------------------------------------------------------------------
\* Specification: main drives the service center
\* ------------------------------------------------------------------------

InitMain ==
    /\ appointments = << >>
    /\ appointmentMutex = Unlocked
    /\ standalone = << >>
    /\ progressCalls = << >>
    /\ notifications = << >>
    /\ listing = << >>
    /\ pc = [t \in {"main"} |-> "ready"]
    /\ frame = [t \in {"main"} |-> NoFrame]
    /\ result = [t \in {"main"} |-> Pending]
    /\ scheduled = << >>
    /\ mainpc = "menu"
    /\ option = Indeterminate
    /\ cin = [state |-> "good", extracted |-> FALSE]
    /\ locals = NoLocals
    /\ console = NoConsole
    /\ exitStatus = Running
    /\ atLoopTop = [appointments |-> << >>, notifications |-> << >>]
    /\ CallersOff

NextMain ==
  /\ UNCHANGED callerVars
  /\
    \/ main_menu
    \/ main_option1
    \/ main_getline("read_clientName",  "clientName",  MainNames,        "read_contact")
    \/ main_getline("read_contact",     "contact",     MainContacts,     "read_vehicleNum")
    \/ main_getline("read_vehicleNum",  "vehicleNum",  MainVehicles,     "read_date")
    \/ main_getline("read_date",        "date",        MainDates,        "read_serviceType")
    \/ main_getline("read_serviceType", "serviceType", MainServiceTypes, "make_service")
    \/ main_makeService
    \/ main_readRepairType
    \/ main_callAdd
    \/ addAppointment_scan("main")   /\ UNCHANGED mainVars
    \/ addAppointment_push("main")   /\ UNCHANGED mainVars
    \/ addAppointment_notify("main") /\ UNCHANGED mainVars
    \/ addAppointment_return("main") /\ UNCHANGED mainVars
    \/ addAppointment_throw("main")  /\ UNCHANGED mainVars
    \/ main_added
    \/ main_addThrew
    \/ main_catch
    \/ main_option2
    \/ viewAppointments_loop("main")   /\ UNCHANGED mainVars
    \/ viewAppointments_return("main") /\ UNCHANGED mainVars
    \/ main_viewed
    \/ main_option3
    \/ main_invalidOption

SpecMain == InitMain /\ [][NextMain]_vars

\* ------------------------------------------------------------------------
\* Specification: callers construct services and ask their cost
\* ------------------------------------------------------------------------

\* Service objects the callers construct
MaxServices == 2

\* calculateCost calls made on one Service object
MaxCostCalls == 2

\* the repair types callers construct an EngineRepair with
CostRepairTypes == {"gasket", "piston rings", ""}

CostServices == {OilChange} \cup { EngineRepair(x) : x \in CostRepairTypes }

\* everything that the callers of the Service classes leave alone
NoCenter ==
    UNCHANGED << appointments, appointmentMutex, standalone, progressCalls,
                 notifications, listing, pc, frame, result, scheduled, mainVars, calls >>

\* make_shared<OilChange>() or make_shared<EngineRepair>(type)
constructService(service) ==
    /\ Len(services) < MaxServices
    /\ services' = Append(services, service)
    /\ costs' = Append(costs, << >>)
    /\ NoCenter

\* services[k]->calculateCost()
cost(k) ==
    /\ k \in 1..Len(services)
    /\ Len(costs[k]) < MaxCostCalls
    /\ costs' = [costs EXCEPT ![k] = Append(@, calculateCost(services[k]))]
    /\ UNCHANGED services
    /\ NoCenter

InitCost ==
    /\ appointments = << >>
    /\ appointmentMutex = Unlocked
    /\ standalone = << >>
    /\ progressCalls = << >>
    /\ notifications = << >>
    /\ listing = << >>
    /\ pc = [t \in {"main"} |-> "ready"]
    /\ frame = [t \in {"main"} |-> NoFrame]
    /\ result = [t \in {"main"} |-> Pending]
    /\ scheduled = << >>
    /\ MainOff
    /\ CallersOff

NextCost ==
    \/ \E service \in CostServices : constructService(service)
    \/ \E k \in 1..MaxServices + 1 : cost(k)

SpecCost == InitCost /\ [][NextCost]_vars

\* ------------------------------------------------------------------------
\* Specification: two threads call the service center
\* ------------------------------------------------------------------------

\* ServiceCenter calls made by one thread
MaxCallsPerThread == 2

CallerThreads == {"t1", "t2"}

\* each thread schedules for a client of its own
CallerClient(t) ==
    IF t = "t1" THEN [name |-> "Alice", contact |-> "100"]
                ELSE [name |-> "Bob",   contact |-> "200"]

CallerVehicles == {"KA01", "KA02"}
CallerDates    == {"01-01-2025"}

\* the call of thread t that is waiting for the mutex or running, if any
Active(t) ==
    /\ Len(calls[t]) > 0
    /\ calls[t][Len(calls[t])].outcome \in {"waiting", "running"}

\* the latest call of thread t is marked with how it stands now
Mark(t, outcome) ==
    calls' = [calls EXCEPT ![t][Len(calls[t])].outcome = outcome]

\* everything that the callers on threads leave alone
NoMain == UNCHANGED << mainVars, services, costs >>

\* thread t calls addAppointment: its arguments are fixed, the mutex not yet taken.
\* peer: the call of the other thread that is under way now; booked: whether the
\* vehicle is stored for the date now.
caller_callAdd(t, vehicleNum, date) ==
    /\ pc[t] = "ready"
    /\ ~ Active(t)
    /\ Len(calls[t]) < MaxCallsPerThread
    /\ calls' = [calls EXCEPT ![t] = Append(@,
                    [ op |-> "addAppointment", vehicleNum |-> vehicleNum, date |-> date,
                      outcome |-> "waiting",
                      peer |-> { <<u, Len(calls[u])>> : u \in { x \in Threads \ {t} : Active(x) } },
                      booked |-> \E i \in 1..Len(appointments) :
                                     /\ appointments[i].vehicleNumber = vehicleNum
                                     /\ appointments[i].scheduledDate = date ])]
    /\ UNCHANGED << appointments, appointmentMutex, standalone, progressCalls,
                    notifications, listing, pc, frame, result, scheduled >>
    /\ NoMain

\* thread t calls viewAppointments
caller_callView(t) ==
    /\ pc[t] = "ready"
    /\ ~ Active(t)
    /\ Len(calls[t]) < MaxCallsPerThread
    /\ calls' = [calls EXCEPT ![t] = Append(@,
                    [ op |-> "viewAppointments", vehicleNum |-> "", date |-> "",
                      outcome |-> "waiting", peer |-> { }, booked |-> FALSE ])]
    /\ UNCHANGED << appointments, appointmentMutex, standalone, progressCalls,
                    notifications, listing, pc, frame, result, scheduled >>
    /\ NoMain

\* the waiting call of thread t gets the mutex
caller_enter(t) ==
    /\ Active(t)
    /\ calls[t][Len(calls[t])].outcome = "waiting"
    /\ IF calls[t][Len(calls[t])].op = "addAppointment"
       THEN addAppointment_lock(t, CallerClient(t), calls[t][Len(calls[t])].vehicleNum,
                                OilChange, calls[t][Len(calls[t])].date)
       ELSE viewAppointments_lock(t)
    /\ Mark(t, "running")
    /\ NoMain

InitCallers ==
    /\ appointments = << >>
    /\ appointmentMutex = Unlocked
    /\ standalone = << >>
    /\ progressCalls = << >>
    /\ notifications = << >>
    /\ listing = << >>
    /\ pc = [t \in CallerThreads |-> "ready"]
    /\ frame = [t \in CallerThreads |-> NoFrame]
    /\ result = [t \in CallerThreads |-> Pending]
    /\ scheduled = << >>
    /\ MainOff
    /\ calls = [t \in CallerThreads |-> << >>]
    /\ services = << >>
    /\ costs = << >>

NextCallers ==
    \E t \in Threads :
        \/ \E v \in CallerVehicles, d \in CallerDates : caller_callAdd(t, v, d)
        \/ caller_callView(t)
        \/ caller_enter(t)
        \/ addAppointment_scan(t)     /\ UNCHANGED calls /\ NoMain
        \/ addAppointment_push(t)     /\ UNCHANGED calls /\ NoMain
        \/ addAppointment_notify(t)   /\ UNCHANGED calls /\ NoMain
        \/ addAppointment_return(t)   /\ Mark(t, "returned") /\ NoMain
        \/ addAppointment_throw(t)    /\ Mark(t, "threw") /\ NoMain
        \/ viewAppointments_loop(t)   /\ UNCHANGED calls /\ NoMain
        \/ viewAppointments_return(t) /\ Mark(t, "returned") /\ NoMain

SpecCallers == InitCallers /\ [][NextCallers]_vars

\* ------------------------------------------------------------------------
\* Properties
\* ------------------------------------------------------------------------

\* thread t is inside addAppointment
InAdd(t) == frame[t].op = "addAppointment"

\* thread t is inside viewAppointments
InView(t) == frame[t].op = "viewAppointments"

\* some appointment of apts has this vehicle on this date
Booked(apts, vehicleNum, date) ==
    \E i \in 1..Len(apts) :
        apts[i].vehicleNumber = vehicleNum /\ apts[i].scheduledDate = date

\* the appointment a request is to store
Requested(f) ==
    [ client        |-> f.client,
      vehicleNumber |-> f.vehicleNum,
      service       |-> f.service,
      scheduledDate |-> f.date,
      currentState  |-> "ScheduledState" ]

\* the place of a state on the line Scheduled -> In Progress -> Completed
Rank(s) ==
    CASE s = "ScheduledState"  -> 1
      [] s = "InProgressState" -> 2
      [] s = "CompletedState"  -> 3

\* C1: whatever addAppointment calls were made, accepted or rejected, no two
\* appointments of the registry have both the same vehicle number and the
\* same date.
C1_UniqueVehicleDate ==
    \A i, j \in 1..Len(appointments) :
        i # j => ~ ( /\ appointments[i].vehicleNumber = appointments[j].vehicleNumber
                     /\ appointments[i].scheduledDate = appointments[j].scheduledDate )

\* two appointments of one vehicle are stored, on different dates
C1_Witness ==
    /\ Len(appointments) = 2
    /\ appointments[1].vehicleNumber = appointments[2].vehicleNumber
    /\ \E t \in Threads : pc[t] = "ready" /\ result[t] = Returned

\* C2: an addAppointment call whose (vehicleNum, date) is that of a stored
\* appointment throws the scheduling-conflict runtime_error, and every step
\* of it, its unwinding included, leaves the registry as the call found it:
\* the same appointments in the same order and states, nothing appended.
C2_ConflictRejected ==
    [][ \A t \in Threads :
          ( /\ InAdd(t)
            /\ Booked(frame[t].entry.appointments, frame[t].vehicleNum, frame[t].date) )
          => /\ appointments' = frame[t].entry.appointments
             /\ pc'[t] \in {"add_throw", "ready"}
             /\ result'[t] = Threw("runtime_error", ConflictMessage)
             /\ scheduled' = scheduled ]_vars

\* a second client's request for a booked vehicle and date has been rejected
C2_Witness ==
    \E t \in Threads :
        /\ pc[t] = "add_throw"
        /\ Len(appointments) = 1
        /\ appointments[1].vehicleNumber = frame[t].vehicleNum
        /\ appointments[1].scheduledDate = frame[t].date
        /\ appointments[1].client # frame[t].client

\* C3: once its scan is over, an addAppointment call is on its way to return
\* exactly if no stored appointment had both its vehicle number and its date,
\* and is throwing otherwise; client and service play no part.
C3_SucceedsIffNotBooked ==
    \A t \in Threads :
        (InAdd(t) /\ pc[t] # "add_scan")
        => LET booked == Booked(frame[t].entry.appointments,
                                frame[t].vehicleNum, frame[t].date)
           IN  /\ (pc[t] \in {"add_push", "add_notify", "add_return"}) <=> ~ booked
               /\ (pc[t] = "add_throw") <=> booked

\* a request is accepted for a vehicle that is booked on another date, by a
\* client and with a service that are stored already
C3_Witness ==
    \E t \in Threads :
        /\ pc[t] = "add_return"
        /\ Len(frame[t].entry.appointments) = 1
        /\ frame[t].entry.appointments[1].vehicleNumber = frame[t].vehicleNum
        /\ frame[t].entry.appointments[1].scheduledDate # frame[t].date
        /\ frame[t].entry.appointments[1].client = frame[t].client
        /\ frame[t].entry.appointments[1].service = frame[t].service

\* C4: from its push_back on, through its return, an accepted addAppointment
\* call has made the registry what it found with one appointment appended at
\* the end: the one with the client, vehicle number, service and date of the
\* call, in state Scheduled.
C4_AppendsOneScheduled ==
    [][ \A t \in Threads :
          (InAdd(t) /\ pc[t] \in {"add_push", "add_notify", "add_return"})
          => /\ appointments' = Append(frame[t].entry.appointments, Requested(frame[t]))
             /\ getStatus(appointments'[Len(appointments')]) = "Scheduled" ]_vars

\* a second appointment has been appended behind the first
C4_Witness ==
    \E t \in Threads :
        /\ pc[t] = "add_return"
        /\ Len(appointments) = 2
        /\ appointments[1] = frame[t].entry.appointments[1]
        /\ appointments[2].vehicleNumber = frame[t].vehicleNum

\* C5: an accepted addAppointment call makes one Client::update call, on the
\* client it was given, with the message "Appointment scheduled for " + date;
\* it makes it when the appointment is in the registry and before it returns.
\* A rejected call makes none.
C5_OneNotification ==
    [][ \A t \in Threads :
          InAdd(t)
          => LET e    == frame[t].entry
                 note == [ client  |-> frame[t].client,
                           message |-> <<"Appointment scheduled for ", frame[t].date>>,
                           line    |-> <<"Notification for ", frame[t].client.name, ": ",
                                         "Appointment scheduled for ", frame[t].date>> ]
             IN  /\ pc[t] \in {"add_scan", "add_push", "add_throw"}
                    => notifications' = e.notifications
                 /\ pc[t] = "add_notify"
                    => /\ appointments = Append(e.appointments, Requested(frame[t]))
                       /\ notifications' = Append(e.notifications, note)
                       /\ pc'[t] = "add_return"
                 /\ pc[t] = "add_return"
                    => notifications' = Append(e.notifications, note) ]_vars

\* the second accepted call has notified its client and not yet returned
C5_Witness ==
    \E t \in Threads :
        /\ pc[t] = "add_return"
        /\ Len(notifications) = 2
        /\ notifications[2].client = frame[t].client
        /\ notifications[1].client # frame[t].client

\* C6: a progressState call takes Scheduled to In Progress and In Progress to
\* Completed; through any calls no appointment's state moves backward or
\* moves more than one place at a time.
C6_OneStepForward ==
    [][ \A k \in 1..Len(standalone) :
          LET old == standalone[k].currentState
              new == standalone'[k].currentState
          IN  /\ progressCalls'[k] # progressCalls[k]
                 => /\ old = "ScheduledState"  => new = "InProgressState"
                    /\ old = "InProgressState" => new = "CompletedState"
              /\ Rank(new) >= Rank(old)
              /\ Rank(new) <= Rank(old) + 1 ]_vars

\* an appointment has been taken to Completed by two progressState calls
C6_Witness ==
    \E k \in 1..Len(standalone) :
        progressCalls[k] = 2 /\ standalone[k].currentState = "CompletedState"

\* C7: a newly constructed appointment is Scheduled; after three
\* progressState calls it is Completed, and after the fourth and any later
\* one it still is.
C7_CompletedAbsorbing ==
    \A k \in 1..Len(standalone) :
        /\ progressCalls[k] = 0 => getStatus(standalone[k]) = "Scheduled"
        /\ progressCalls[k] >= 3 => /\ standalone[k].currentState = "CompletedState"
                                    /\ getStatus(standalone[k]) = "Completed"

\* the fourth progressState call on an appointment has been made
C7_Witness ==
    \E k \in 1..Len(standalone) :
        progressCalls[k] = 4 /\ standalone[k].currentState = "CompletedState"

\* C8: the state of an appointment changes only in a progressState call on
\* that very appointment: never in a step of addAppointment or of
\* viewAppointments, never in a progressState call on another appointment,
\* and never by itself.
C8_OnlyProgressStateMutates ==
    [][ /\ \A i \in 1..Len(appointments) :
              appointments'[i].currentState = appointments[i].currentState
        /\ \A k \in 1..Len(standalone) :
              standalone'[k].currentState # standalone[k].currentState
              => /\ progressCalls'[k] = progressCalls[k] + 1
                 /\ \A t \in Threads : pc[t] = "ready" => pc'[t] = "ready" ]_vars

\* an appointment a caller holds is Completed beside two stored ones, which
\* a listing has just shown
C8_Witness ==
    /\ Len(appointments) = 2
    /\ Len(listing) = 2
    /\ \E k \in 1..Len(standalone) : standalone[k].currentState = "CompletedState"

\* C9: when its loop is over, viewAppointments has written one summary for
\* each addAppointment call that returned, in the order of those calls, each
\* with the vehicle number, client name, service description and date of the
\* call and the status of the appointment.
C9_ListsInOrder ==
    \A t \in Threads :
        (InView(t) /\ pc[t] = "view_return")
        => /\ Len(listing) = Len(scheduled)
           /\ \A i \in 1..Len(scheduled) :
                 listing[i] =
                    << <<"\nVehicle: ", scheduled[i].vehicleNum>>,
                       <<"\nClient: ",  scheduled[i].client.name>>,
                       <<"\nService: ", getDescription(scheduled[i].service)>>,
                       <<"\nDate: ",    scheduled[i].date>>,
                       <<"\nStatus: ",  getStatus(appointments[i])>> >>

\* a listing of two appointments that differ in vehicle, client and service
C9_Witness ==
    \E t \in Threads :
        /\ pc[t] = "view_return"
        /\ Len(listing) = 2
        /\ scheduled[1].vehicleNum # scheduled[2].vehicleNum
        /\ scheduled[1].client # scheduled[2].client
        /\ scheduled[1].service # scheduled[2].service

\* a step of thread t inside viewAppointments, its entry and return included
ViewStep(t) ==
    /\ pc'[t] # pc[t]
    /\ pc'[t] = "view_loop" \/ pc[t] \in {"view_loop", "view_return"}

\* C10: no step of a viewAppointments call changes the registry (its
\* sequence, the appointments' members, their states), an appointment a
\* caller holds, or the notifications delivered.
C10_ViewHasNoSideEffects ==
    [][ \A t \in Threads :
          ViewStep(t) => /\ appointments'  = appointments
                         /\ standalone'    = standalone
                         /\ notifications' = notifications
                         /\ scheduled'     = scheduled ]_vars

\* a listing of two appointments has been written, with an appointment a
\* caller holds in progress
C10_Witness ==
    \E t \in Threads :
        /\ pc[t] = "view_return"
        /\ Len(listing) = 2
        /\ \E k \in 1..Len(standalone) : standalone[k].currentState = "InProgressState"

\* the service types the if chain of main knows
KnownType(serviceType) == serviceType \in {"oil", "engine"}

\* C11: in the option-1 block, once the service type is read and is neither
\* "oil" nor "engine", main is at its catch clause (or back at the menu) with
\* invalid_argument "Invalid service type"; addAppointment was not entered,
\* the registry and the notifications are what they were at the top of the
\* loop.
C11_InvalidTypeBeforeMutation ==
    ( /\ locals.reads >= 5
      /\ mainpc # "make_service"
      /\ ~ KnownType(locals.serviceType) )
    => /\ mainpc \in {"catch", "menu"}
       /\ result["main"] = Threw("invalid_argument", "Invalid service type")
       /\ pc["main"] = "ready"
       /\ frame["main"] = NoFrame
       /\ appointments = atLoopTop.appointments
       /\ notifications = atLoopTop.notifications
       /\ Len(scheduled) = Len(appointments)

\* service type "bike" has been refused with an appointment stored
C11_Witness ==
    /\ mainpc = "catch"
    /\ locals.serviceType = "bike"
    /\ Len(appointments) = 1

\* C12: at the catch clause the exception is the scheduling conflict or the
\* invalid service type and the registry is what it was at the top of the
\* loop; the clause writes "Error: " and the message and main goes back to
\* the menu, still running, the registry untouched.  A request made then (or
\* at any time) for a vehicle and date not booked is accepted.
C12_ErrorsRecoverable ==
    [][ /\ mainpc = "catch"
           => /\ result["main"].what \in {ConflictMessage, "Invalid service type"}
              /\ appointments = atLoopTop.appointments
              /\ appointments' = atLoopTop.appointments
              /\ notifications' = atLoopTop.notifications
              /\ console' = <<"Error: ", result["main"].what>>
              /\ mainpc' = "menu"
              /\ exitStatus' = Running
        /\ ( /\ mainpc = "in_add"
             /\ pc["main"] = "ready"
             /\ ~ Booked(atLoopTop.appointments, locals.vehicleNum, locals.date) )
           => /\ result["main"] = Returned
              /\ Len(appointments) = Len(atLoopTop.appointments) + 1
              /\ console' = <<"Appointment scheduled successfully!\n">>
              /\ mainpc' = "menu" ]_vars

\* with the conflict error the latest report, a request has been accepted
C12_Witness ==
    /\ console = <<"Error: ", ConflictMessage>>
    /\ mainpc = "in_add"
    /\ pc["main"] = "ready"
    /\ result["main"] = Returned
    /\ Len(appointments) = 2

\* C13: when the menu read has extracted 3, main's next step ends the
\* process with status 0 and the registry as it was; main never ends with
\* another status or a changed registry.
C13_Option3Exits ==
    [][ /\ (mainpc = "dispatch" /\ cin.extracted /\ option = Stored(3))
           => /\ mainpc' = "exited"
              /\ exitStatus' = <<0>>
              /\ console' = <<"Exiting system...\n">>
              /\ appointments' = appointments
        /\ mainpc' = "exited"
           => /\ exitStatus' = <<0>>
              /\ appointments' = atLoopTop'.appointments ]_vars

\* main has ended on option 3 after scheduling, a listing and an error
C13_Witness ==
    /\ mainpc = "exited"
    /\ cin.extracted
    /\ option = Stored(3)
    /\ Len(appointments) = 2
    /\ Len(listing) = 1
    /\ result["main"].status = "threw"

\* C16: while main drives the program every stored appointment is in
\* ScheduledState and every summary listed shows the status "Scheduled".
C16_AlwaysScheduled ==
    /\ \A i \in 1..Len(appointments) :
          /\ appointments[i].currentState = "ScheduledState"
          /\ getStatus(appointments[i]) = "Scheduled"
    /\ \A i \in 1..Len(listing) : listing[i][5] = <<"\nStatus: ", "Scheduled">>

\* option 2 has listed two appointments
C16_Witness ==
    /\ mainpc = "in_view"
    /\ pc["main"] = "view_return"
    /\ Len(listing) = 2

\* C17: main ends only when its menu read has extracted 3.
C17_ExitsOnlyByReading3 ==
    mainpc = "exited" => (cin.extracted /\ option = Stored(3))

\* C18: addAppointment is entered only with a known service type, after
\* five reads for "oil" and after the sixth, of the repair type, for
\* "engine"; a request with an unknown type for a booked vehicle and date is
\* at the catch clause with the invalid service type, and the scheduling
\* conflict is only ever raised for a known type.
C18_TypeCheckedFirst ==
    /\ (mainpc = "in_add" \/ InAdd("main"))
       => /\ KnownType(locals.serviceType)
          /\ locals.serviceType = "oil" => locals.reads = 5
          /\ locals.serviceType = "engine"
             => /\ locals.reads = 6
                /\ frame["main"].op = "addAppointment"
                   => frame["main"].service = EngineRepair(locals.repairType)
    /\ ( /\ mainpc = "catch"
         /\ ~ KnownType(locals.serviceType)
         /\ Booked(appointments, locals.vehicleNum, locals.date) )
       => result["main"] = Threw("invalid_argument", "Invalid service type")
    /\ ( /\ mainpc \in {"in_add", "catch"}
         /\ result["main"] = Threw("runtime_error", ConflictMessage) )
       => KnownType(locals.serviceType)

\* an unknown service type for a booked vehicle and date is at the catch clause
C18_Witness ==
    /\ mainpc = "catch"
    /\ locals.serviceType = "bike"
    /\ Booked(appointments, locals.vehicleNum, locals.date)

\* a call that has returned or thrown
Finished(call) == call.outcome \in {"returned", "threw"}

\* C14: with two threads calling, no two stored appointments have the same
\* vehicle number and date; a thread inside addAppointment or
\* viewAppointments holds the mutex, so no other thread is inside either; a
\* listing shows exactly the appointments of the addAppointment calls that
\* have returned; and of two addAppointment calls under way at the same time
\* for the same vehicle and date at most one returns, exactly one if the
\* pair was not booked when the later of them was made.
C14_CallsAtomic ==
    /\ \A i, j \in 1..Len(appointments) :
          i # j => ~ ( /\ appointments[i].vehicleNumber = appointments[j].vehicleNumber
                       /\ appointments[i].scheduledDate = appointments[j].scheduledDate )
    /\ \A t \in Threads :
          pc[t] # "ready"
          => /\ appointmentMutex = t
             /\ \A u \in Threads \ {t} : pc[u] = "ready"
    /\ \A t \in Threads :
          pc[t] = "view_return"
          => /\ Len(listing) = Len(scheduled)
             /\ Len(listing) = Len(appointments)
    /\ \A t \in Threads : \A i \in 1..Len(calls[t]) : \A p \in calls[t][i].peer :
          LET later   == calls[t][i]
              earlier == calls[p[1]][p[2]]
          IN  ( /\ later.op = "addAppointment"
                /\ earlier.op = "addAppointment"
                /\ later.vehicleNum = earlier.vehicleNum
                /\ later.date = earlier.date
                /\ Finished(later)
                /\ Finished(earlier) )
              => /\ ~ (later.outcome = "returned" /\ earlier.outcome = "returned")
                 /\ ~ later.booked
                    => (later.outcome = "returned" \/ earlier.outcome = "returned")

\* of two calls for one vehicle and date under way together, the one made
\* later has returned and the one made first has thrown
C14_Witness ==
    \E t \in Threads : \E u \in Threads \ {t} :
        /\ Len(calls[t]) = 1
        /\ Len(calls[u]) = 1
        /\ calls[t][1].peer = { <<u, 1>> }
        /\ calls[t][1].op = "addAppointment"
        /\ calls[u][1].op = "addAppointment"
        /\ calls[t][1].vehicleNum = calls[u][1].vehicleNum
        /\ calls[t][1].outcome = "returned"
        /\ calls[u][1].outcome = "threw"

\* C15: every calculateCost call on an OilChange returns 50 and every call on
\* an EngineRepair returns 300, whatever its repair type and however often it
\* is called, and no call changes a Service object.
C15_CostByVariant ==
    [][ /\ \A k \in 1..Len(services) : services'[k] = services[k]
        /\ \A k \in 1..Len(services') : \A i \in 1..Len(costs'[k]) :
              costs'[k][i] = IF services'[k].class = "OilChange" THEN 50 ELSE 300 ]_vars

\* calculateCost has been called twice on an EngineRepair and on an OilChange
C15_Witness ==
    \E k, m \in 1..Len(services) :
        /\ services[k].class = "EngineRepair"
        /\ services[k].repairType = "piston rings"
        /\ Len(costs[k]) = 2
        /\ services[m].class = "OilChange"
        /\ Len(costs[m]) = 2

\* C19: with two threads calling, a thread about to notify holds the mutex
\* and the other thread is inside no call; the notifications delivered are,
\* in order, those of the stored appointments in the order of the registry,
\* the last appointment lacking its notification only while its call is
\* about to deliver it.
C19_NotifiedUnderLock ==
    /\ \A t \in Threads :
          pc[t] = "add_notify"
          => /\ appointmentMutex = t
             /\ \A u \in Threads \ {t} : pc[u] = "ready"
             /\ Len(appointments) = Len(notifications) + 1
    /\ (\A t \in Threads : pc[t] # "add_notify")
       => Len(appointments) = Len(notifications)
    /\ Len(notifications) <= Len(appointments)
    /\ \A i \in 1..Len(notifications) :
          /\ i <= Len(appointments)
          /\ notifications[i].client = appointments[i].client
          /\ notifications[i].message =
                <<"Appointment scheduled for ", appointments[i].scheduledDate>>

\* one notification delivered, the second appointment appended and about to
\* be notified while the other thread waits with a call
C19_Witness ==
    \E t \in Threads : \E u \in Threads \ {t} :
        /\ pc[t] = "add_notify"
        /\ Len(notifications) = 1
        /\ notifications[1].client = CallerClient(u)
        /\ Active(u)
        /\ calls[u][Len(calls[u])].outcome = "waiting"

====
